---- MODULE Spec2Model ----
(***************************************************************************)
(* Model of the startups-tracker scraping pipeline:                        *)
(*   - RateLimiter (lib/utils/rate-limiter): add() / process()             *)
(*   - fetchWithRetry (retry on HTTP 429 through the limiter)              *)
(*   - scrapeA16z / scrapeYCombinator / scrapeStartups                     *)
(* Time is the value of Date.now() in milliseconds.                        *)
(***************************************************************************)
EXTENDS Integers, Sequences, FiniteSets, TLC

(***************************************************************************)
(* Program constants.                                                      *)
(***************************************************************************)
RATE_LIMIT == 1
MAX_RETRIES == 3
MAX_CONSECUTIVE_ERRORS == 3
NUM_SELECTORS == 7   \* entries of scrapeA16z's selector list
NUM_SCRAPERS == 2    \* Promise.all([scrapeA16z(), scrapeYCombinator()])
RETRY_DELAY_MS == 2000
delayMs == 1000 \div RATE_LIMIT

(***************************************************************************)
(* Bounds of the model.                                                    *)
(***************************************************************************)
MaxTasks == 4        \* add() calls made by the free callers of Spec
MaxDrains == 2       \* process() activations that can coexist in the model
TicksPerDelay == 2   \* clock granularity: ticks per limiter interval
MaxTicks == 3        \* ticks the clock may advance while no timer is pending
MaxItems == 2        \* elements and companies the two sources serve in one run
MaxBatch == 2        \* records scrapeStartups returns to one GET request
MaxRunTasks == 2     \* add() calls after which a scraper starts no further fetch

TickMs == delayMs \div TicksPerDelay
StartTime == 2 * RETRY_DELAY_MS          \* Date.now() at module load, > delayMs
MaxTime == StartTime + MaxTicks * TickMs
TaskCap == IF MaxTasks > NUM_SCRAPERS * (MAX_RETRIES + 2)
           THEN MaxTasks ELSE NUM_SCRAPERS * (MAX_RETRIES + 2)

TaskIds == 1..TaskCap
DrainIds == 1..MaxDrains
\* The fetchWithRetry calls in flight at once: each scraper awaits its
\* fetches one at a time, so one per scraper.
CallIds == 1..NUM_SCRAPERS

\* What a task (an axios.get wrapped by add) can end with: a response, an
\* axios error carrying status 429, an axios error carrying another status,
\* an axios error without response (network), a non-axios exception.
Outcomes == {"ok", "e429", "eHttp", "eNet", "eOther"}

Max(a, b) == IF a >= b THEN a ELSE b
Min(a, b) == IF a <= b THEN a ELSE b

VARIABLES
  \* RateLimiter fields
  queue,            \* this.queue: task ids in push order
  processing,       \* this.processing
  lastRequestTime,  \* this.lastRequestTime
  \* the event loop
  now,              \* Date.now()
  drains,           \* activations of process(): pc, timer deadline, task run
  nextId,           \* number of add() calls made so far
  owner,            \* task id -> fetchWithRetry call that issued it (0: free caller)
  promise,          \* task id -> state of the promise add() returned
  outcome,          \* task id -> what the task's own fn() ended with
  running,          \* tasks whose fn() has started and not completed
  startOrder,       \* task ids in the order their fn() was started
  lastStartAt,      \* Date.now() when the latest task was started (-1: none)
  minGap,           \* least time between two consecutive task starts (-1: none)
  \* fetchWithRetry calls
  calls,
  \* one run of scrapeStartups
  variant,          \* which scraper module runs: "route" (axios) or "bee" (ScrapingBee)
  directory,        \* the directory API: number of non-empty pages of the cohort
  a16z,             \* scrapeA16z: position, startups, processedNames
  yc,               \* scrapeYCombinator: position, page loop state, startups, processedNames
  run,              \* scrapeStartups: position and returned list
  served,           \* elements and companies served by the sources so far
  \* the GET handler and the startups table
  store,            \* rows of the table "startups" (name is unique)
  get               \* the GET request in progress and the one before it

limiterVars == <<queue, processing, lastRequestTime, drains, nextId, owner,
                 promise, outcome, running, startOrder, lastStartAt, minGap>>
scrapeVars == <<variant, directory, a16z, yc, run, served>>
getVars == <<store, get>>
vars == <<queue, processing, lastRequestTime, now, drains, nextId, owner,
          promise, outcome, running, startOrder, lastStartAt, minGap, calls,
          variant, directory, a16z, yc, run, served, store, get>>

IdleDrain == [pc |-> "idle", wake |-> 0, fn |-> 0]
IdleCall == [pc |-> "idle", retries |-> 0, task |-> 0, wake |-> 0,
             result |-> "none", failedAt |-> 0, issued |-> 0, saw |-> {}]

InitLimiter ==
  /\ queue = <<>>
  /\ processing = FALSE
  /\ lastRequestTime = 0
  /\ now = StartTime
  /\ drains = [d \in DrainIds |-> IdleDrain]
  /\ nextId = 0
  /\ owner = [t \in TaskIds |-> 0]
  /\ promise = [t \in TaskIds |-> "none"]
  /\ outcome = [t \in TaskIds |-> "none"]
  /\ running = {}
  /\ startOrder = <<>>
  /\ lastStartAt = -1
  /\ minGap = -1

\* The attributes of the portfolio item in hand; no item is in hand.
NoItem == [filterBy |-> "", investmentDate |-> ""]
IdleA16z == [pc |-> "idle", sel |-> 0, left |-> 0, startups |-> <<>>,
             processedNames |-> {}, seen |-> <<>>, matched |-> <<>>,
             error |-> "none", lookup |-> "none", item |-> NoItem]
IdleYcPageOne == [pc |-> "idle", page |-> 1, hasMore |-> TRUE, consecutiveErrors |-> 0,
                  left |-> 0, next |-> FALSE, startups |-> <<>>, processedNames |-> {},
                  seen |-> <<>>, answers |-> <<>>, failed |-> FALSE,
                  lookup |-> "none", requests |-> 0, threw |-> FALSE]
IdleYc == [pc |-> "idle", page |-> 0, hasMore |-> TRUE, consecutiveErrors |-> 0,
           left |-> 0, next |-> FALSE, startups |-> <<>>, processedNames |-> {},
           seen |-> <<>>, answers |-> <<>>, failed |-> FALSE,
           lookup |-> "none", requests |-> 0, threw |-> FALSE]

InitScrape ==
  /\ variant = "none"
  /\ directory = 0
  /\ a16z = IdleA16z
  /\ yc = IdleYc
  /\ run = [pc |-> "idle", result |-> <<>>, error |-> "none"]
  /\ served = 0

\* No response yet; a request that has not been made.
NoResponse == [status |-> 0]
IdleGet == [pc |-> "idle", results |-> <<>>, rows |-> <<>>, before |-> {},
            failure |-> "none", response |-> NoResponse,
            prev |-> [results |-> <<>>, response |-> NoResponse]]

InitGet ==
  /\ store = {}
  /\ get = IdleGet

Init ==
  /\ InitLimiter
  /\ calls = [c \in CallIds |-> IdleCall]
  /\ InitScrape
  /\ InitGet

(***************************************************************************)
(* RateLimiter                                                             *)
(***************************************************************************)

\* add(): "if (!this.processing) this.process()"
ShouldStartDrainAlways(p) == TRUE
ShouldStartDrainNever(p) == FALSE
ShouldStartDrain(p) == ~p

\* process(): Math.max(0, this.lastRequestTime + this.delayMs - now)
TimeToWaitNoDelay(last, t) == Max(0, last - t)
TimeToWait(last, t) == Max(0, last + delayMs - t)

\* process(): this.queue.shift()
Pop(q) == [fn |-> q[Len(q)], rest |-> SubSeq(q, 1, Len(q) - 1)]
Shift(q) == [fn |-> Head(q), rest |-> Tail(q)]

\* The closure add() pushes: try { resolve(await fn()) } catch (e) { reject(e) }.
\* settle: what the promise returned by add() becomes; thrown: whether the
\* closure itself rejects into process().
WrapperRethrow(o) == [settle |-> o, thrown |-> o # "ok"]
Wrapper(o) == [settle |-> o, thrown |-> FALSE]

ActiveDrains == {d \in DrainIds : drains[d].pc \in {"waiting", "running", "resuming"}}
FreeDrains == {d \in DrainIds : drains[d].pc = "idle"}
FreeDrain == CHOOSE d \in FreeDrains : \A e \in FreeDrains : d <= e

\* The synchronous head of process() (up to its first await), entered by
\* activation d with the queue holding q.
ProcessCall(d, q) ==
  IF Len(q) = 0
  THEN /\ processing' = FALSE
       /\ drains' = [drains EXCEPT ![d] = IdleDrain]
  ELSE /\ processing' = TRUE
       /\ drains' = [drains EXCEPT ![d] =
            [pc |-> "waiting", wake |-> now + TimeToWait(lastRequestTime, now), fn |-> 0]]

\* add(fn) called for fetchWithRetry call c (0: a free caller).
AddTask(c) ==
  /\ nextId < TaskCap
  /\ nextId' = nextId + 1
  /\ owner' = [owner EXCEPT ![nextId + 1] = c]
  /\ promise' = [promise EXCEPT ![nextId + 1] = "pending"]
  /\ queue' = Append(queue, nextId + 1)
  /\ IF ShouldStartDrain(processing)
     THEN /\ FreeDrains # {}
          /\ ProcessCall(FreeDrain, Append(queue, nextId + 1))
     ELSE UNCHANGED <<processing, drains>>
  /\ UNCHANGED <<lastRequestTime, outcome, running, startOrder, lastStartAt, minGap>>

Add ==
  /\ nextId < MaxTasks
  /\ AddTask(0)
  /\ UNCHANGED <<now, calls, scrapeVars, getVars>>

\* The setTimeout of activation d fires: shift the queue, stamp, start fn().
TimerFire(d) ==
  /\ drains[d].pc = "waiting"
  /\ now >= drains[d].wake
  /\ IF Len(queue) > 0
     THEN /\ queue' = Shift(queue).rest
          /\ lastRequestTime' = now
          /\ drains' = [drains EXCEPT ![d] = [pc |-> "running", wake |-> 0, fn |-> Shift(queue).fn]]
          /\ running' = running \cup {Shift(queue).fn}
          /\ startOrder' = Append(startOrder, Shift(queue).fn)
          /\ minGap' = IF lastStartAt = -1 THEN -1
                        ELSE IF minGap = -1 THEN now - lastStartAt
                        ELSE Min(minGap, now - lastStartAt)
          /\ lastStartAt' = now
          /\ UNCHANGED processing
     ELSE /\ ProcessCall(d, queue)
          /\ UNCHANGED <<queue, lastRequestTime, running, startOrder, lastStartAt, minGap>>
  /\ UNCHANGED <<now, nextId, owner, promise, outcome, calls, scrapeVars, getVars>>

\* The task run by activation d completes with outcome o: the closure settles
\* the promise of its own add() call.
TaskSettle(d, o) ==
  /\ drains[d].pc = "running"
  /\ LET t == drains[d].fn IN
     /\ outcome' = [outcome EXCEPT ![t] = o]
     /\ promise' = [promise EXCEPT ![t] = Wrapper(o).settle]
     /\ running' = running \ {t}
     /\ drains' = [drains EXCEPT ![d] =
          [pc |-> IF Wrapper(o).thrown THEN "dead" ELSE "resuming", wake |-> 0, fn |-> 0]]
  /\ UNCHANGED <<queue, processing, lastRequestTime, now, nextId, owner,
                 startOrder, lastStartAt, minGap, calls, scrapeVars, getVars>>

\* Activation d resumes after "await fn()": "await this.process()".
DrainResume(d) ==
  /\ drains[d].pc = "resuming"
  /\ ProcessCall(d, queue)
  /\ UNCHANGED <<queue, lastRequestTime, now, nextId, owner, promise, outcome,
                 running, startOrder, lastStartAt, minGap, calls, scrapeVars, getVars>>

\* A timer that has been set and is not yet due.
TimerPending ==
  \/ \E d \in DrainIds : drains[d].pc = "waiting" /\ drains[d].wake > now
  \/ \E c \in CallIds : calls[c].pc = "backoff" /\ calls[c].wake > now

Tick ==
  /\ now < MaxTime \/ TimerPending
  /\ now' = now + TickMs
  /\ UNCHANGED <<limiterVars, calls, scrapeVars, getVars>>

Next ==
  \/ Add
  \/ \E d \in DrainIds : TimerFire(d)
  \/ \E d \in DrainIds, o \in Outcomes : TaskSettle(d, o)
  \/ \E d \in DrainIds : DrainResume(d)
  \/ Tick

Spec == Init /\ [][Next]_vars

(***************************************************************************)
(* fetchWithRetry                                                          *)
(***************************************************************************)

\* axios.isAxiosError(error)
IsAxiosError(e) == e \in {"e429", "eHttp", "eNet"}

\* error.response?.status (0: undefined)
Status(e) == IF e = "e429" THEN 429 ELSE IF e = "eHttp" THEN 500 ELSE 0

\* retries > 0 && axios.isAxiosError(error) && error.response?.status === 429
ShouldRetryAtZero(r, e) == r >= 0 /\ IsAxiosError(e) /\ Status(e) = 429
ShouldRetryAnyError(r, e) == r > 0 /\ e # "ok"
ShouldRetry(r, e) == r > 0 /\ IsAxiosError(e) /\ Status(e) = 429

\* fetchWithRetry(url, options, retries - 1)
SameBudget(r) == r
NextBudget(r) == r - 1

\* fetchWithRetry(url, options) is called: rateLimiter.add(() => axios.get(..)).
FetchCall(c) ==
  /\ calls[c].pc = "idle"
  /\ AddTask(c)
  /\ calls' = [calls EXCEPT ![c] =
       [pc |-> "awaiting", retries |-> MAX_RETRIES, task |-> nextId + 1,
        wake |-> 0, result |-> "none", failedAt |-> 0, issued |-> 1, saw |-> {}]]
  /\ UNCHANGED <<now, scrapeVars, getVars>>

\* The await of rateLimiter.add() in call c resumes with the promise's value:
\* return the response, back off before a retry, or rethrow the error. The
\* settled promise is dropped; the call keeps what it saw (issued, saw).
FetchResume(c) ==
  /\ calls[c].pc = "awaiting"
  /\ promise[calls[c].task] \in Outcomes
  /\ LET t == calls[c].task
         e == promise[t]
         seen == [calls[c] EXCEPT !.saw = @ \cup {e}, !.task = 0]
     IN
     /\ calls' = [calls EXCEPT ![c] =
          IF e = "ok"
          THEN [seen EXCEPT !.pc = "done", !.result = "ok"]
          ELSE IF ShouldRetry(calls[c].retries, e)
          THEN [seen EXCEPT !.pc = "backoff", !.wake = now + RETRY_DELAY_MS, !.failedAt = now]
          ELSE [seen EXCEPT !.pc = "done", !.result = e]]
     /\ promise' = [promise EXCEPT ![t] = "none"]
     /\ outcome' = [outcome EXCEPT ![t] = "none"]
     /\ owner' = [owner EXCEPT ![t] = 0]
  /\ UNCHANGED <<queue, processing, lastRequestTime, drains, nextId, running,
                 startOrder, lastStartAt, minGap, now, scrapeVars, getVars>>

\* delay(2000) of call c is over: the recursive fetchWithRetry issues the call again.
BackoffExpire(c) ==
  /\ calls[c].pc = "backoff"
  /\ now >= calls[c].wake
  /\ AddTask(c)
  /\ calls' = [calls EXCEPT ![c] =
       [@ EXCEPT !.pc = "awaiting", !.retries = NextBudget(calls[c].retries),
                 !.task = nextId + 1, !.wake = 0, !.failedAt = 0,
                 !.issued = @ + 1]]
  /\ UNCHANGED <<now, scrapeVars, getVars>>

\* A timer whose delay has elapsed and whose callback has not run yet.
TimerDue ==
  \/ \E d \in DrainIds : drains[d].pc = "waiting" /\ drains[d].wake <= now
  \/ \E c \in CallIds : calls[c].pc = "backoff" /\ calls[c].wake <= now

\* The clock of SpecRetry: the event loop runs the callbacks of due timers
\* before a further tick passes.
TickRetry ==
  /\ ~TimerDue
  /\ Tick

NextRetry ==
  \/ \E c \in CallIds : FetchCall(c)
  \/ \E c \in CallIds : FetchResume(c)
  \/ \E c \in CallIds : BackoffExpire(c)
  \/ \E d \in DrainIds : TimerFire(d)
  \/ \E d \in DrainIds, o \in Outcomes : TaskSettle(d, o)
  \/ \E d \in DrainIds : DrainResume(d)
  \/ TickRetry

SpecRetry == Init /\ [][NextRetry]_vars

\* "await fetchWithRetry(..)" in a scraper: the scraper goes on only when the
\* call has returned or thrown.
AwaitedNot(call) == call.pc \in {"done", "awaiting"}
Awaited(call) == call.pc = "done"

\* Scraper c (1: scrapeA16z, 2: scrapeYCombinator) resumes after its awaited
\* fetchWithRetry call and goes on to its next fetch: the portfolio page,
\* then one search per element; one page after the other, one search per
\* company.
FetchReturn(c) ==
  /\ Awaited(calls[c])
  /\ nextId < MaxRunTasks
  /\ calls' = [calls EXCEPT ![c] = IdleCall]
  /\ UNCHANGED <<limiterVars, now, scrapeVars, getVars>>

\* One run of scrapeStartups as the shared RateLimiter sees it: the two
\* scrapers, started together by Promise.all, each a sequence of awaited
\* fetchWithRetry calls.
NextRun ==
  \/ \E c \in CallIds : FetchCall(c)
  \/ \E c \in CallIds : FetchResume(c)
  \/ \E c \in CallIds : BackoffExpire(c)
  \/ \E c \in CallIds : FetchReturn(c)
  \/ \E d \in DrainIds : TimerFire(d)
  \/ \E d \in DrainIds, o \in Outcomes : TaskSettle(d, o)
  \/ \E d \in DrainIds : DrainResume(d)
  \/ TickRetry

SpecRun == Init /\ [][NextRun]_vars

(***************************************************************************)
(* Company names: JavaScript strings, as sequences of characters.          *)
(***************************************************************************)
\* The names the sources serve: missing, too short, short with padding,
\* valid, the same name in another letter case, a second name, and valid
\* names with padding.
Names == { <<>>, <<"a">>, <<" ", "a">>,
           <<"a", "b">>, <<"A", "B">>, <<"b", "a">>,
           <<" ", "a", "b">>, <<"A", "b", " ">> }
\* The title or heading texts of a portfolio element.
Texts == { <<>>, <<" ", "A", "b">>, <<"a", " ">> }

\* String.prototype.toLowerCase
ToLowerChar(c) == IF c = "A" THEN "a" ELSE IF c = "B" THEN "b" ELSE c
ToLower(s) == [i \in 1..Len(s) |-> ToLowerChar(s[i])]

\* String.prototype.trim
RECURSIVE TrimStart(_)
TrimStart(s) == IF s # <<>> /\ Head(s) = " " THEN TrimStart(Tail(s)) ELSE s
RECURSIVE TrimEnd(_)
TrimEnd(s) ==
  IF s # <<>> /\ s[Len(s)] = " " THEN TrimEnd(SubSeq(s, 1, Len(s) - 1)) ELSE s
Trim(s) == TrimEnd(TrimStart(s))

\* validateCompany: !company.name || company.name.trim().length < 2 rejects
validateCompanyNoTrim(name) == name # <<>> /\ Len(name) >= 2
validateCompany(name) == name # <<>> /\ Len(Trim(name)) >= 2

\* The key of processedNames: name.toLowerCase()
DedupKeyCaseSensitive(name) == name
DedupKey(name) == ToLower(name)

\* What the search request of getLinkedInUrl ends with: the result page with
\* the href of its first company link ("" when it has none), or a failure of
\* fetchWithRetry (the catch block tells no kinds of failure apart). The
\* ScrapingBee module sends no request.
NoLookup == [outcome |-> "ok", href |-> ""]
Lookups == { [outcome |-> "ok", href |-> h] : h \in {"", "linkedin"} }
           \cup { [outcome |-> "eNet", href |-> ""] }

\* getLinkedInUrl. route.ts: the href found by the search, "" when none is
\* found or the fetch fails. The ScrapingBee module: the constructed URL.
\* "thrown" stands for an exception leaving the function.
getLinkedInUrlRethrows(v, lk) ==
  IF v = "route"
  THEN IF lk.outcome = "ok" THEN lk.href ELSE "thrown"
  ELSE "constructed"
getLinkedInUrl(v, lk) ==
  IF v = "route"
  THEN IF lk.outcome = "ok" THEN lk.href ELSE ""
  ELSE "constructed"

\* company.website || "not found"
OrNotFound(x) == IF x = "" THEN "not found" ELSE x

(***************************************************************************)
(* scrapeA16z                                                              *)
(***************************************************************************)

\* route.ts: data-name, else the trimmed title text (or heading text); then,
\* if non-empty, the prefix noise is removed and the name trimmed. The names
\* of the model hold no "IPO:" / "Acquired By:", so the replace leaves them.
A16zElementsRoute == [dataName : Names, text : Texts]
ExtractNameRoute(el) ==
  LET raw == IF el.dataName # <<>> THEN el.dataName ELSE Trim(el.text)
  IN IF raw # <<>> THEN Trim(raw) ELSE raw

\* The ScrapingBee module: the first non-empty name source, trimmed, with the
\* data-filter-by and data-investment-date attributes.
FilterBys == {"", "2024", "2024 exit", "2024 Exit"}
InvestmentDates == {"Q4 2024", "2024-11-02", "Q3 2024"}
A16zElementsBee == [name : Names, filterBy : FilterBys, investmentDate : InvestmentDates,
                    website : {"", "http://w"}]
Has2024(f) == f \in {"2024", "2024 exit", "2024 Exit"}
\* filterBy.toLowerCase().includes("exit")
HasExitCaseSensitive(f) == f \in {"2024 exit"}
HasExit(f) == f \in {"2024 exit", "2024 Exit"}
IsQ4_2024(el) ==
  /\ Has2024(el.filterBy)
  /\ el.investmentDate \in {"Q4 2024", "2024-11-02"}

\* The sources serve MaxItems elements and companies in one run, one of them
\* at least on each non-empty page of the directory that is still to come.
PagesToCome == Max(0, directory - yc.page)
ServeLeft == MaxItems - served - PagesToCome

\* After the items of selector sel: break when startups were found, else go
\* on to the next selector; after the last one the URL loop ends too and the
\* function returns (its loop variables are gone).
A16zAfterSelectorNoBreak(r) ==
  IF r.sel = NUM_SELECTORS
  THEN [r EXCEPT !.pc = "done", !.sel = 0, !.left = 0, !.matched = <<>>,
                 !.lookup = "none"]
  ELSE [r EXCEPT !.pc = "select", !.sel = @ + 1, !.left = 0, !.lookup = "none"]
A16zAfterSelector(r) ==
  IF Len(r.startups) > 0 \/ r.sel = NUM_SELECTORS
  THEN [r EXCEPT !.pc = "done", !.sel = 0, !.left = 0, !.matched = <<>>,
                 !.lookup = "none"]
  ELSE [r EXCEPT !.pc = "select", !.sel = @ + 1, !.left = 0, !.lookup = "none"]

\* What the fetch of the portfolio page ends with in the model: the page, an
\* HTTP error status or a network failure.
PageOutcomes == {"ok", "eHttp", "eNet"}

\* The portfolio page fetch settles with outcome o. route.ts logs a failure
\* and goes on to return its empty list; the ScrapingBee module rethrows it.
\* The catch block around the page fetch, entered with error o: route.ts
\* logs it and returns the list, which is empty; the ScrapingBee module logs
\* it and throws it again.
A16zCatchRethrows(v, r, o) == [r EXCEPT !.pc = "rejected", !.error = o]
A16zCatch(v, r, o) ==
  IF v = "route" THEN [r EXCEPT !.pc = "done"]
  ELSE [r EXCEPT !.pc = "rejected", !.error = o]

A16zFetch(o) ==
  /\ a16z.pc = "fetch"
  /\ a16z' = IF o # "ok" THEN A16zCatch(variant, a16z, o)
             ELSE IF variant = "route" THEN [a16z EXCEPT !.pc = "select", !.sel = 1]
             ELSE [a16z EXCEPT !.pc = "collect"]
  /\ UNCHANGED <<limiterVars, now, calls, getVars, variant, directory, yc, run, served>>

\* $(selector).toArray() gives n elements: the current selector's (route.ts)
\* or those of the joined selector list (ScrapingBee module). matched keeps
\* the number of elements of each selector of route.ts evaluated so far.
A16zSelect(n) ==
  /\ a16z.pc \in {"select", "collect"}
  /\ n \in 0..ServeLeft
  /\ a16z' = IF a16z.pc = "collect"
             THEN IF n > 0 THEN [a16z EXCEPT !.pc = "items", !.left = n]
                  ELSE [a16z EXCEPT !.pc = "done"]
             ELSE LET r == [a16z EXCEPT !.matched = Append(@, n)]
                  IN IF n > 0 THEN [r EXCEPT !.pc = "items", !.left = n]
                     ELSE A16zAfterSelector(r)
  /\ UNCHANGED <<limiterVars, now, calls, getVars, variant, directory, yc, run, served>>

\* One candidate name is taken through dedup, lookup and validation. The
\* lookup is made for a name that is not in processedNames; lookup keeps how
\* the request of the latest candidate ended ("none": no request was made).
\* An exception of the lookup leaves the try block before the push.
Accept(r, name, rec, eligible, lk) ==
  LET new == eligible /\ DedupKey(name) \notin r.processedNames
      noted == [r EXCEPT !.seen = Append(@, [name |-> name, eligible |-> eligible]),
                         !.lookup = IF new /\ variant = "route"
                                    THEN IF lk.outcome = "ok" THEN "ok" ELSE "failed"
                                    ELSE "none"]
  IN IF new /\ rec.linkedin_url # "thrown" /\ validateCompany(name)
     THEN [noted EXCEPT !.startups = Append(@, rec),
                        !.processedNames = @ \cup {DedupKey(name)}]
     ELSE noted

\* route.ts: one element of the current selector is processed.
A16zItemRoute(el, lk) ==
  /\ variant = "route"
  /\ a16z.pc = "items"
  /\ lk \in Lookups
  /\ LET name == ExtractNameRoute(el)
         rec == [name |-> name, website |-> "not found",
                 linkedin_url |-> getLinkedInUrl(variant, lk)]
         r1 == IF name = <<>> THEN [a16z EXCEPT !.lookup = "none"]
               ELSE Accept(a16z, name, rec, TRUE, lk)
         r2 == [r1 EXCEPT !.left = @ - 1]
     IN a16z' = IF r2.left = 0 THEN [r2 EXCEPT !.pc = "itemsDone"] ELSE r2
  /\ served' = served + 1
  /\ UNCHANGED <<limiterVars, now, calls, getVars, variant, directory, yc, run>>

\* route.ts: the elements of the current selector have all been processed:
\* "if (startups.length > 0) break", else the next selector. The ScrapingBee
\* module: the loop over the portfolio items has ended, startups is returned.
A16zEndSelector ==
  /\ a16z.pc = "itemsDone"
  /\ a16z' = IF variant = "route" THEN A16zAfterSelector(a16z)
             ELSE [a16z EXCEPT !.pc = "done", !.item = NoItem]
  /\ UNCHANGED <<limiterVars, now, calls, getVars, variant, directory, yc, run, served>>

\* ScrapingBee module: one portfolio item is processed.
A16zItemBee(el) ==
  /\ variant = "bee"
  /\ a16z.pc = "items"
  /\ LET name == Trim(el.name)
         rec == [name |-> name, website |-> OrNotFound(el.website),
                 linkedin_url |-> getLinkedInUrl(variant, NoLookup)]
         eligible == IsQ4_2024(el) /\ ~HasExit(el.filterBy)
         r1 == IF name = <<>> THEN a16z
               ELSE Accept(a16z, name, rec, eligible, NoLookup)
         r2 == [r1 EXCEPT !.left = @ - 1,
                          !.item = [filterBy |-> el.filterBy,
                                    investmentDate |-> el.investmentDate]]
     IN a16z' = IF r2.left = 0 THEN [r2 EXCEPT !.pc = "itemsDone"] ELSE r2
  /\ served' = served + 1
  /\ UNCHANGED <<limiterVars, now, calls, getVars, variant, directory, yc, run>>

(***************************************************************************)
(* scrapeYCombinator                                                       *)
(***************************************************************************)

\* The two scrapers share no variable (each has its own startups and
\* processedNames), so their steps commute: the model takes the steps of
\* scrapeA16z before those of scrapeYCombinator.
A16zSettled == a16z.pc \in {"done", "rejected"}

\* while (hasMore && consecutiveErrors < MAX_CONSECUTIVE_ERRORS)
YcLoopNoErrorLimit(r) ==
  IF r.hasMore THEN [r EXCEPT !.pc = "fetching"] ELSE [r EXCEPT !.pc = "done"]
YcLoop(r) ==
  IF r.hasMore /\ r.consecutiveErrors < MAX_CONSECUTIVE_ERRORS
  THEN [r EXCEPT !.pc = "fetching"]
  ELSE [r EXCEPT !.pc = "done"]

\* What the request of page r.page was answered: an empty page, a non-empty
\* page with a truthy next-page indicator ("more") or with a falsy one ("last").
Answered(r, answer) ==
  [r EXCEPT !.answers = Append(@, [page |-> r.page, answer |-> answer])]

\* The request of page r.page is made: requests counts the requests made in
\* a row for the same page index.
Requested(r) == [r EXCEPT !.requests = @ + 1]

\* The page-level catch block: consecutiveErrors++, wait 5 s, loop again.
YcAfterFailNoCount(r) == YcLoop([r EXCEPT !.failed = TRUE])
YcAfterFail(r) == YcLoop([r EXCEPT !.consecutiveErrors = @ + 1, !.failed = TRUE])

\* The page fetch fails: count it, wait 5 s, loop on the same page.
YcPageFail ==
  /\ yc.pc = "fetching"
  /\ A16zSettled
  /\ yc' = YcAfterFail(Requested(yc))
  /\ UNCHANGED <<limiterVars, now, calls, getVars, variant, directory, a16z, run, served>>

\* The page fetch answers n companies and a next-page indicator: the
\* directory's pages 0..directory-1 hold companies, the pages after them none.
YcPage(n, next) ==
  /\ yc.pc = "fetching"
  /\ A16zSettled
  /\ IF yc.page < directory THEN n \in 1..(ServeLeft + 1) ELSE n = 0
  /\ yc' = IF n = 0
           THEN [Answered(Requested(yc), "empty") EXCEPT !.hasMore = FALSE, !.pc = "done"]
           ELSE [Answered(Requested(yc), IF next THEN "more" ELSE "last") EXCEPT
                   !.pc = "items", !.left = n, !.next = next]
  /\ UNCHANGED <<limiterVars, now, calls, getVars, variant, directory, a16z, run, served>>

\* After the companies of a page: reset the error count, next page, hasMore.
YcAfterPageIgnoreIndicator(r) ==
  YcLoop([r EXCEPT !.consecutiveErrors = 0, !.page = @ + 1, !.next = FALSE,
                   !.lookup = "none", !.requests = 0, !.threw = FALSE])
YcAfterPageUntilEmpty(r) ==
  YcLoop([r EXCEPT !.consecutiveErrors = 0, !.page = @ + 1, !.hasMore = TRUE,
                   !.next = FALSE, !.lookup = "none", !.requests = 0,
                   !.threw = FALSE])
YcAfterPage(r) ==
  YcLoop([r EXCEPT !.consecutiveErrors = 0, !.page = @ + 1, !.hasMore = r.next,
                   !.next = FALSE, !.lookup = "none", !.requests = 0,
                   !.threw = FALSE])

\* The catch block of the company loop: consecutiveErrors++, and the loop
\* goes on with the next company. threw keeps whether the try block of the
\* latest company of the page threw.
YcCompanyCatchEndsLoop(r) ==
  YcLoop([r EXCEPT !.consecutiveErrors = @ + 1, !.threw = TRUE])
YcCompanyCatch(r) == [r EXCEPT !.consecutiveErrors = @ + 1, !.threw = TRUE]

\* One company of the page is processed.
YcItem(co, lk) ==
  /\ yc.pc = "items"
  /\ A16zSettled
  /\ co \in [name : Names, website : {"", "http://w"}]
  /\ IF variant = "route" THEN lk \in Lookups ELSE lk = NoLookup
  /\ LET li == getLinkedInUrl(variant, lk)
         rec == [name |-> co.name, website |-> OrNotFound(co.website),
                 linkedin_url |-> IF variant = "route" /\ li # "thrown"
                                  THEN OrNotFound(li) ELSE li]
         thrown == /\ li = "thrown"
                   /\ co.name # <<>>
                   /\ DedupKey(co.name) \notin yc.processedNames
         r0 == IF co.name = <<>> THEN [yc EXCEPT !.lookup = "none", !.threw = FALSE]
               ELSE [Accept(yc, co.name, rec, TRUE, lk) EXCEPT !.threw = FALSE]
         r1 == IF thrown THEN YcCompanyCatch(r0) ELSE r0
         r2 == [r1 EXCEPT !.left = @ - 1]
     IN yc' = IF r2.pc = "items" /\ r2.left = 0 THEN YcAfterPage(r2) ELSE r2
  /\ served' = served + 1
  /\ UNCHANGED <<limiterVars, now, calls, getVars, variant, directory, a16z, run>>

\* The try block of a company that is not in processedNames throws before
\* the push. No statement of the try block does as the two modules stand
\* (getLinkedInUrl catches its own errors), so this step belongs to
\* SpecCompanyFailure only, which exercises the catch block.
YcItemThrows(co) ==
  /\ yc.pc = "items"
  /\ A16zSettled
  /\ co.name # <<>>
  /\ DedupKey(co.name) \notin yc.processedNames
  /\ LET r1 == YcCompanyCatch([yc EXCEPT !.lookup = "none"])
         r2 == [r1 EXCEPT !.left = @ - 1]
     IN yc' = IF r2.pc = "items" /\ r2.left = 0 THEN YcAfterPage(r2) ELSE r2
  /\ served' = served + 1
  /\ UNCHANGED <<limiterVars, now, calls, getVars, variant, directory, a16z, run>>

(***************************************************************************)
(* scrapeStartups                                                          *)
(***************************************************************************)

\* scrapeStartups() of module v is called while the directory holds k
\* non-empty pages: both scrapers run up to their first await.
ScrapeStart(v, k) ==
  /\ run.pc = "idle"
  /\ variant' = v
  /\ directory' = k
  /\ a16z' = [IdleA16z EXCEPT !.pc = "fetch"]
  /\ yc' = YcLoop(IdleYc)
  /\ run' = [run EXCEPT !.pc = "running"]
  /\ UNCHANGED <<limiterVars, now, calls, getVars, served>>

\* Promise.all settles: [...a16zStartups, ...ycStartups], or the rejection,
\* which the catch block of scrapeStartups throws again.
ScrapeSettleAllSettled ==
  /\ run.pc = "running"
  /\ a16z.pc \in {"done", "rejected"} /\ yc.pc = "done"
  /\ run' = [pc |-> "resolved", result |-> a16z.startups \o yc.startups,
             error |-> "none"]
  /\ UNCHANGED <<limiterVars, now, calls, getVars, variant, directory, a16z, yc, served>>
ScrapeSettle ==
  /\ run.pc = "running"
  /\ \/ /\ a16z.pc = "rejected"
        /\ run' = [run EXCEPT !.pc = "rejected", !.error = a16z.error]
     \/ /\ a16z.pc = "done" /\ yc.pc = "done"
        /\ run' = [pc |-> "resolved", result |-> a16z.startups \o yc.startups,
                   error |-> "none"]
  /\ UNCHANGED <<limiterVars, now, calls, getVars, variant, directory, a16z, yc, served>>

NextScrape ==
  \/ \E v \in {"route", "bee"}, k \in 0..MaxItems : ScrapeStart(v, k)
  \/ \E o \in PageOutcomes : A16zFetch(o)
  \/ \E n \in 0..MaxItems : A16zSelect(n)
  \/ \E el \in A16zElementsRoute, lk \in Lookups : A16zItemRoute(el, lk)
  \/ A16zEndSelector
  \/ \E el \in A16zElementsBee : A16zItemBee(el)
  \/ YcPageFail
  \/ \E n \in 0..MaxItems, next \in BOOLEAN : YcPage(n, next)
  \/ \E co \in [name : Names, website : {"", "http://w"}],
        lk \in Lookups : YcItem(co, lk)
  \/ ScrapeSettle

SpecScrape == Init /\ [][NextScrape]_vars

(***************************************************************************)
(* GET /api/scrape and the table "startups"                                *)
(***************************************************************************)

\* The records scrapeStartups returns to GET in the model: one as route.ts's
\* scrapeA16z builds it after a failed LinkedIn lookup, one of the same name
\* as scrapeYCombinator builds it, and one whose name differs in letter case.
ScrapedRecords ==
  { [name |-> <<"a", "b">>, website |-> "not found", linkedin_url |-> ""],
    [name |-> <<"a", "b">>, website |-> "http://w", linkedin_url |-> "not found"],
    [name |-> <<"A", "B">>, website |-> "not found", linkedin_url |-> "linkedin"] }
Batches == UNION { [1..n -> ScrapedRecords] : n \in 0..MaxBatch }

\* The errors GET can catch: the rejection of scrapeStartups (an axios error,
\* an Error) and the error object an upsert reports (an Error or a plain
\* object, depending on the client library).
ScrapeErrors == { [message |-> e, isError |-> TRUE] : e \in PageOutcomes \ {"ok"} }
StoreErrors == { [message |-> "eStore", isError |-> b] : b \in BOOLEAN }
\* error: null in the answer of a request to the table.
NoError == [message |-> "none", isError |-> FALSE]

\* startup.name || "Unknown", startup.website || "not found",
\* startup.linkedin_url || "not found" (created_at is left out).
Unknown == <<"U", "n", "k", "n", "o", "w", "n">>
ToInsertAsScraped(rec) ==
  [name |-> rec.name, website |-> rec.website, linkedin_url |-> rec.linkedin_url]
ToInsert(rec) ==
  [name |-> IF rec.name = <<>> THEN Unknown ELSE rec.name,
   website |-> OrNotFound(rec.website),
   linkedin_url |-> OrNotFound(rec.linkedin_url)]
StartupsToInsert(results) == [i \in 1..Len(results) |-> ToInsert(results[i])]

\* upsert(rows, { onConflict: "name", ignoreDuplicates: true }): a row whose
\* name is in the table already, or earlier in the batch, is ignored.
RECURSIVE Upsert(_, _)
Upsert(table, rows) ==
  IF rows = <<>> THEN table
  ELSE Upsert(IF \E x \in table : x.name = Head(rows).name
              THEN table ELSE table \cup {Head(rows)},
              Tail(rows))

\* The table after the upsert request: one statement, applied as a whole or,
\* when it reports an error, not at all.
TableAfterUpsertPartial(table, rows, err) ==
  IF err = NoError THEN Upsert(table, rows) ELSE Upsert(table, SubSeq(rows, 1, 1))
TableAfterUpsert(table, rows, err) ==
  IF err = NoError THEN Upsert(table, rows) ELSE table

\* The catch block of GET: status 500 with
\* details = error instanceof Error ? error.message : "Unknown error".
Failure(e) ==
  [status |-> 500, error |-> "Operation failed",
   details |-> IF e.isError THEN e.message ELSE "Unknown error"]

\* The success body; totalCount is -1 for null.
Success(results, totalCount) ==
  [status |-> 200, success |-> TRUE, newCount |-> Len(results),
   totalCount |-> totalCount,
   message |-> IF Len(results) = 0 THEN "No new startups found"
               ELSE "Scrape completed successfully"]

\* A GET request arrives (the one before it has been answered) and calls
\* scrapeStartups().
GetCall ==
  /\ get.pc \in {"idle", "responded"}
  /\ get' = [IdleGet EXCEPT !.pc = "scraping", !.before = store,
                            !.prev = [results |-> get.results,
                                      response |-> get.response]]
  /\ UNCHANGED <<limiterVars, now, calls, scrapeVars, store>>

\* scrapeStartups() resolves with results: when there are any they are
\* mapped to startupsToInsert (rows) and the upsert is issued, else the count
\* is queried.
GetScraped(results) ==
  /\ get.pc = "scraping"
  /\ get' = IF Len(results) > 0
            THEN [get EXCEPT !.results = results, !.pc = "upserting",
                             !.rows = StartupsToInsert(results)]
            ELSE [get EXCEPT !.results = results, !.pc = "counting"]
  /\ UNCHANGED <<limiterVars, now, calls, scrapeVars, store>>

\* scrapeStartups() rejects with e: GET answers from its catch block.
GetRejected(e) ==
  /\ get.pc = "scraping"
  /\ get' = [get EXCEPT !.pc = "responded", !.failure = "scrape",
                        !.response = Failure(e)]
  /\ UNCHANGED <<limiterVars, now, calls, scrapeVars, store>>

\* The upsert request is answered: without error, or with the error err,
\* which GET throws into its catch block.
GetUpsert(err) ==
  /\ get.pc = "upserting"
  /\ store' = TableAfterUpsert(store, get.rows, err)
  /\ get' = IF err = NoError THEN [get EXCEPT !.pc = "counting"]
            ELSE [get EXCEPT !.pc = "responded", !.failure = "upsert",
                             !.response = Failure(err)]
  /\ UNCHANGED <<limiterVars, now, calls, scrapeVars>>

\* The count query is answered: with the number of rows, or with an error
\* and count: null; GET reads count alone and answers 200 either way.
GetCount(ok) ==
  /\ get.pc = "counting"
  /\ get' = [get EXCEPT !.pc = "responded",
                        !.response = Success(get.results,
                                             IF ok THEN Cardinality(store) ELSE -1)]
  /\ UNCHANGED <<limiterVars, now, calls, scrapeVars, store>>

NextGet ==
  \/ GetCall
  \/ \E results \in Batches : GetScraped(results)
  \/ \E e \in ScrapeErrors : GetRejected(e)
  \/ \E err \in {NoError} \cup StoreErrors : GetUpsert(err)
  \/ \E ok \in BOOLEAN : GetCount(ok)

SpecGet == Init /\ [][NextGet]_vars

\* The drain loop is scheduled fairly: timers fire, tasks complete, the clock
\* advances and suspended continuations resume.
Fairness ==
  /\ WF_vars(Tick)
  /\ WF_vars(\E d \in DrainIds : TimerFire(d))
  /\ WF_vars(\E d \in DrainIds, o \in Outcomes : TaskSettle(d, o))
  /\ WF_vars(\E d \in DrainIds : DrainResume(d))

FairSpec == Init /\ [][Next]_vars /\ Fairness

FairnessRetry ==
  /\ Fairness
  /\ \A c \in CallIds : WF_vars(FetchResume(c)) /\ WF_vars(BackoffExpire(c))

FairSpecRetry == Init /\ [][NextRetry]_vars /\ FairnessRetry

\* The scrape runs in which the portfolio page cannot be fetched: the
\* directory serves all the companies of the run, which have no name, a name
\* too short or the one valid name, and no LinkedIn page is found. Every
\* fetch completes and every continuation is resumed.
DirectoryCompanies == [name : {<<>>, <<"a">>, <<"a", "b">>}, website : {""}]
NextDirectory ==
  \/ \E v \in {"route", "bee"}, k \in 0..MaxItems : ScrapeStart(v, k)
  \/ \E o \in PageOutcomes \ {"ok"} : A16zFetch(o)
  \/ YcPageFail
  \/ \E n \in 0..MaxItems, next \in BOOLEAN : YcPage(n, next)
  \/ \E co \in DirectoryCompanies, lk \in {NoLookup} : YcItem(co, lk)
  \/ ScrapeSettle

FairSpecDirectory == Init /\ [][NextDirectory]_vars /\ WF_vars(NextDirectory)

\* The same runs, in which the try block of a company may throw as well.
NextCompanyFailure ==
  \/ \E v \in {"route", "bee"}, k \in 0..MaxItems : ScrapeStart(v, k)
  \/ \E o \in PageOutcomes \ {"ok"} : A16zFetch(o)
  \/ YcPageFail
  \/ \E n \in 0..MaxItems, next \in BOOLEAN : YcPage(n, next)
  \/ \E co \in DirectoryCompanies, lk \in {NoLookup} : YcItem(co, lk)
  \/ \E co \in DirectoryCompanies : YcItemThrows(co)
  \/ ScrapeSettle

SpecCompanyFailure == Init /\ [][NextCompanyFailure]_vars

\* The GET request of the run arrives.
RequestCall ==
  /\ run.pc = "idle"
  /\ GetCall

\* GET calls scrapeStartups() of module v.
RequestScrapeStart(v, k) ==
  /\ get.pc = "scraping"
  /\ ScrapeStart(v, k)

\* The await of scrapeStartups() in GET resumes with the list it resolved with.
RequestScraped ==
  /\ run.pc = "resolved"
  /\ GetScraped(run.result)

\* The await of scrapeStartups() in GET throws the error it rejected with.
RequestRejected ==
  /\ run.pc = "rejected"
  /\ GetRejected([message |-> run.error, isError |-> TRUE])

\* One GET request from its arrival to its answer, with the scrape it runs,
\* while the portfolio page cannot be fetched: the directory serves the
\* companies of the run, its requests and the LinkedIn searches fail or are
\* answered.
NextRequest ==
  \/ RequestCall
  \/ \E v \in {"route", "bee"}, k \in 0..MaxItems : RequestScrapeStart(v, k)
  \/ \E o \in PageOutcomes \ {"ok"} : A16zFetch(o)
  \/ YcPageFail
  \/ \E n \in 0..MaxItems, next \in BOOLEAN : YcPage(n, next)
  \/ \E co \in DirectoryCompanies, lk \in Lookups : YcItem(co, lk)
  \/ ScrapeSettle
  \/ RequestScraped
  \/ RequestRejected
  \/ \E err \in {NoError} \cup StoreErrors : GetUpsert(err)
  \/ \E ok \in BOOLEAN : GetCount(ok)

SpecRequest == Init /\ [][NextRequest]_vars

(***************************************************************************)
(* Claims about the RateLimiter                                            *)
(***************************************************************************)

\* C1: the start times of any two consecutively started tasks differ by at
\* least the configured interval delayMs = 1000 / requestsPerSecond.
C1_MinInterval ==
  minGap # -1 => minGap >= delayMs

\* Three tasks have been started and the last one was started exactly one
\* interval after its predecessor: the drain had to wait the interval out.
C1_Witness ==
  /\ Len(startOrder) >= 3
  /\ minGap = delayMs

\* C2: tasks start executing strictly in the order in which add() was called
\* (task ids are handed out in add() order).
C2_Fifo ==
  \A i \in 1..Len(startOrder) : startOrder[i] = i

\* Two tasks have been started in order, the second is still running and a
\* third was submitted behind it.
C2_Witness ==
  /\ Len(startOrder) >= 2
  /\ running # {}
  /\ Len(queue) >= 1

\* C3: at most one drain loop is active and at most one task is executing.
C3_SingleLane ==
  /\ Cardinality(ActiveDrains) <= 1
  /\ Cardinality(running) <= 1

\* A task is executing while two more add() calls have queued tasks behind
\* it, and still only one drain exists.
C3_Witness ==
  /\ running # {}
  /\ Len(queue) >= 2
  /\ Cardinality(ActiveDrains) = 1

Failed(t) == outcome[t] \notin {"none", "ok"}
Settled(t) == promise[t] \notin {"none", "pending"}

C4_OwnOutcome ==
  \A t \in TaskIds :
    /\ outcome[t] # "none" => promise[t] = outcome[t]
    /\ Settled(t) => promise[t] = outcome[t]

\* C4: a task's failure is delivered to the promise of its own add() call and
\* to no other; the drain goes on, and every task still pending once a task
\* has failed is executed and has its own outcome delivered.
C4_FailureIsolated ==
  /\ []C4_OwnOutcome
  /\ \A u \in TaskIds :
       (promise[u] = "pending" /\ \E t \in TaskIds : Failed(t)) ~> Settled(u)

\* A task failed and its caller was told so, and a task submitted after it
\* has succeeded and its caller was told that.
C4_Witness ==
  \E t, u \in TaskIds :
    /\ t < u
    /\ Failed(t) /\ promise[t] = outcome[t]
    /\ promise[u] = "ok"

(***************************************************************************)
(* Claims about fetchWithRetry                                             *)
(***************************************************************************)

\* C5: when the call of fetchWithRetry fails with HTTP 429 and the remaining
\* budget is greater than 0, fetchWithRetry goes into its backoff, and it
\* leaves the backoff only after RETRY_DELAY_MS (2 s) have passed, by adding
\* the same call to the rate limiter again with the budget decremented by one.
C5_RetryOn429 ==
  [][\A c \in CallIds :
       /\ ( /\ calls[c].pc = "awaiting"
            /\ promise[calls[c].task] = "e429"
            /\ calls[c].retries > 0
            /\ calls'[c] # calls[c] )
          => /\ calls'[c].pc = "backoff"
             /\ calls'[c].failedAt = now
             /\ calls'[c].retries = calls[c].retries
             /\ nextId' = nextId
       /\ ( calls[c].pc = "backoff" /\ calls'[c] # calls[c] )
          => /\ now >= calls[c].failedAt + RETRY_DELAY_MS
             /\ calls'[c].pc = "awaiting"
             /\ calls'[c].retries = calls[c].retries - 1
             /\ queue' = Append(queue, calls'[c].task)
             /\ owner'[calls'[c].task] = c
             /\ promise'[calls'[c].task] = "pending"
    ]_vars

\* A call whose first attempt answered 429 has waited the backoff out and has
\* its second attempt in the rate limiter, with one retry less.
C5_Witness ==
  \E c \in CallIds :
    /\ calls[c].pc = "awaiting"
    /\ calls[c].issued = 2
    /\ calls[c].retries = MAX_RETRIES - 1
    /\ calls[c].saw = {"e429"}
    /\ promise[calls[c].task] = "pending"

\* C6: a call is issued at most MAX_RETRIES + 1 times; when every attempt
\* answered 429 and fetchWithRetry has finished, it was issued exactly
\* MAX_RETRIES + 1 times and it rejected with the 429 error itself.
C6_BoundedAttempts ==
  \A c \in CallIds :
    /\ calls[c].issued <= MAX_RETRIES + 1
    /\ (calls[c].pc = "done" /\ calls[c].saw = {"e429"})
       => /\ calls[c].issued = MAX_RETRIES + 1
          /\ calls[c].result = "e429"

\* A call has finished after four attempts that all answered 429.
C6_Witness ==
  \E c \in CallIds :
    /\ calls[c].pc = "done"
    /\ calls[c].saw = {"e429"}
    /\ calls[c].issued = MAX_RETRIES + 1
    /\ calls[c].retries = 0

\* C7: when the call fails with anything other than HTTP 429, fetchWithRetry
\* rejects with that error at once: no backoff and no further attempt,
\* whatever budget remains; a finished call does nothing more.
C7_NoRetryOnOtherErrors ==
  [][\A c \in CallIds :
       /\ ( /\ calls[c].pc = "awaiting"
            /\ promise[calls[c].task] \in {"eHttp", "eNet", "eOther"}
            /\ calls'[c] # calls[c] )
          => /\ calls'[c].pc = "done"
             /\ calls'[c].result = promise[calls[c].task]
             /\ calls'[c].issued = calls[c].issued
             /\ nextId' = nextId
             /\ queue' = queue
       /\ calls[c].pc = "done" => calls'[c] = calls[c]
    ]_vars

\* A call has been rejected with a non-429 error while retries remained.
C7_Witness ==
  \E c \in CallIds :
    /\ calls[c].pc = "done"
    /\ calls[c].result \in {"eHttp", "eNet", "eOther"}
    /\ calls[c].retries > 0

(***************************************************************************)
(* Claims about the scrapers                                               *)
(***************************************************************************)

\* The names of a list of records, and of the candidates a scraper has seen.
RecordNames(recs) == [i \in 1..Len(recs) |-> recs[i].name]
SeenNames(r) == [i \in 1..Len(r.seen) |-> r.seen[i].name]

\* No two entries of a list of names are equal up to letter case.
NoSharedName(names) ==
  \A i, j \in 1..Len(names) : i < j => ToLower(names[i]) # ToLower(names[j])

\* The entries of a list of names that no earlier entry equals up to letter case.
RECURSIVE FirstOccurrences(_)
FirstOccurrences(names) ==
  IF names = <<>> THEN <<>>
  ELSE LET init == SubSeq(names, 1, Len(names) - 1)
           last == names[Len(names)]
       IN IF \E i \in 1..Len(init) : ToLower(init[i]) = ToLower(last)
          THEN FirstOccurrences(init)
          ELSE Append(FirstOccurrences(init), last)

\* The candidates a scraper may keep: past the source's own filter (the
\* Q4-2024 / not-an-exit filter of the ScrapingBee scrapeA16z) and with a
\* name of trimmed length >= 2.
RECURSIVE KeepableNames(_)
KeepableNames(seen) ==
  IF seen = <<>> THEN <<>>
  ELSE LET init == KeepableNames(SubSeq(seen, 1, Len(seen) - 1))
           last == seen[Len(seen)]
       IN IF last.eligible /\ Len(Trim(last.name)) >= 2
          THEN Append(init, last.name) ELSE init

\* C8: within one run of scrapeStartups no two records of the result share a
\* case-insensitive name.
C8_RunUnique ==
  run.pc = "resolved" => NoSharedName(RecordNames(run.result))

\* C9 as stated: a scraper's output is the first-encountered occurrence of
\* each name among all the candidates it processed, in encounter order.
C9_FirstOfEveryName ==
  /\ RecordNames(a16z.startups) = FirstOccurrences(SeenNames(a16z))
  /\ RecordNames(yc.startups) = FirstOccurrences(SeenNames(yc))

\* C9: a scraper's output is the first-encountered occurrence of each name
\* among the candidates that pass its filter and its validation, in encounter
\* order; every later occurrence is dropped, and so is every candidate that
\* fails the filter or the validation.
C9_FirstOccurrenceKept ==
  /\ RecordNames(a16z.startups) = FirstOccurrences(KeepableNames(a16z.seen))
  /\ RecordNames(yc.startups) = FirstOccurrences(KeepableNames(yc.seen))

\* Both scrapers have finished; one of them met the same name twice, in
\* different letter cases, and returned the first occurrence alone.
C9_Witness ==
  /\ run.pc = "resolved"
  /\ \E r \in {a16z, yc} :
       /\ Len(r.seen) = 2
       /\ ToLower(r.seen[1].name) = ToLower(r.seen[2].name)
       /\ r.seen[1].name # r.seen[2].name
       /\ RecordNames(r.startups) = <<r.seen[1].name>>

\* C10: validateCompany rejects every name that is missing or of trimmed
\* length < 2, and no record of either scraper's output or of the result of
\* scrapeStartups has a name of trimmed length < 2.
C10_NoShortNames ==
  /\ \A name \in Names :
       (name = <<>> \/ Len(Trim(name)) < 2) => ~validateCompany(name)
  /\ \A recs \in {a16z.startups, yc.startups, run.result} :
       \A i \in 1..Len(recs) : Len(Trim(recs[i].name)) >= 2

\* scrapeStartups has returned a record although a scraper met a padded
\* name of trimmed length 1.
C10_Witness ==
  /\ run.pc = "resolved"
  /\ Len(run.result) >= 1
  /\ \E r \in {a16z, yc} : \E i \in 1..Len(r.seen) :
       Len(r.seen[i].name) >= 2 /\ Len(Trim(r.seen[i].name)) < 2

(***************************************************************************)
(* Claims about the page loop of scrapeYCombinator                         *)
(***************************************************************************)

\* The answered requests asked for the pages 0, 1, 2, ... in this order.
InPageOrder(answers) ==
  \A i \in 1..Len(answers) : answers[i].page = i - 1

\* scrapeYCombinator asked for the pages 0..directory, the last answer was the
\* empty page, and it returns the valid unique companies of all it was served.
FetchedWholeCohort ==
  /\ Len(yc.answers) = directory + 1
  /\ InPageOrder(yc.answers)
  /\ yc.answers[Len(yc.answers)].answer = "empty"
  /\ RecordNames(yc.startups) = FirstOccurrences(KeepableNames(yc.seen))

\* C11 as stated: when the directory serves k non-empty pages followed by an
\* empty page and every fetch succeeds, scrapeYCombinator fetches the pages
\* 0..k in order, returns their valid unique companies and stops after the
\* empty page.
C11_WholeCohort ==
  (yc.pc = "done" /\ ~yc.failed) => FetchedWholeCohort

\* C11: the same, when in addition every non-empty page came with a truthy
\* next-page indicator (next or nextPage).
C11_WholeCohortIfIndicated ==
  ( /\ yc.pc = "done"
    /\ ~yc.failed
    /\ \A i \in 1..Len(yc.answers) : yc.answers[i].answer # "last" )
  => FetchedWholeCohort

\* The directory held two non-empty pages; scrapeYCombinator was answered
\* pages 0 and 1 with a truthy indicator, then the empty page 2, and it
\* returns a company of each of the two pages.
C11_Witness ==
  /\ yc.pc = "done"
  /\ ~yc.failed
  /\ directory = 2
  /\ Len(yc.answers) = 3
  /\ yc.answers[1].answer = "more" /\ yc.answers[2].answer = "more"
  /\ yc.answers[3] = [page |-> 2, answer |-> "empty"]
  /\ Len(yc.startups) = 2

\* A step in which a page fetch of scrapeYCombinator fails.
PageFetchFails ==
  /\ yc.pc = "fetching"
  /\ yc'.consecutiveErrors = yc.consecutiveErrors + 1

\* C12: a failed page fetch loses no record; the third consecutive failure
\* ends the cohort loop and scrapeYCombinator resolves with the records it
\* has accumulated, which scrapeStartups then returns behind those of
\* scrapeA16z.
C12_AbandonedCohortResolves ==
  [][ /\ PageFetchFails =>
           /\ yc'.startups = yc.startups
           /\ yc'.pc = IF yc'.consecutiveErrors = MAX_CONSECUTIVE_ERRORS
                       THEN "done" ELSE "fetching"
      /\ (yc.pc = "done" /\ run'.pc = "resolved" /\ run.pc # "resolved") =>
           run'.result = a16z.startups \o yc.startups
    ]_vars

\* scrapeYCombinator kept a company of page 0, then its fetch of page 1
\* failed three times in a row, and scrapeStartups has resolved with the
\* company in its result.
C12_Witness ==
  /\ yc.pc = "done"
  /\ yc.consecutiveErrors = MAX_CONSECUTIVE_ERRORS
  /\ yc.hasMore
  /\ yc.page = 1
  /\ Len(yc.startups) >= 1
  /\ run.pc = "resolved"
  /\ \E i \in 1..Len(run.result) : run.result[i] = yc.startups[1]

(***************************************************************************)
(* Claims about the selectors of scrapeA16z                                *)
(***************************************************************************)

\* C13 as stated: scrapeA16z (route.ts) evaluates no selector after the first
\* one that matched an element: every selector evaluated before the latest
\* one matched nothing.
C13_FirstMatchingSelectorOnly ==
  \A i \in 1..(Len(a16z.matched) - 1) : a16z.matched[i] = 0

\* C13: scrapeA16z (route.ts) evaluates its selectors in order and processes
\* every element of each selector it evaluates; it evaluates a further
\* selector only while startups is empty, so the first selector whose
\* elements gave an accepted record is the last one evaluated.
C13_FirstFruitfulSelectorOnly ==
  /\ a16z.pc = "select" => Len(a16z.startups) = 0
  /\ (variant = "route" /\ a16z.pc \in {"select", "items", "itemsDone"}) =>
       /\ a16z.sel \in 1..NUM_SELECTORS
       /\ Len(a16z.matched) = IF a16z.pc = "select" THEN a16z.sel - 1 ELSE a16z.sel
       /\ Len(a16z.startups) > 0 =>
            /\ a16z.pc # "select"
            /\ a16z.matched[a16z.sel] > 0
  /\ a16z.pc = "itemsDone" => a16z.left = 0

\* Selectors 1 and 2 matched nothing, selector 3 matched MaxItems elements,
\* all of them have been processed and one at least was accepted: the loop
\* over the selectors is about to break.
C13_Witness ==
  /\ variant = "route"
  /\ a16z.pc = "itemsDone"
  /\ a16z.matched = <<0, 0, MaxItems>>
  /\ served = MaxItems
  /\ Len(a16z.startups) >= 1

(***************************************************************************)
(* Claims about scrapeStartups                                             *)
(***************************************************************************)

\* C14: when a scraper has rejected, scrapeStartups does not resolve: it
\* rejects with the scraper's own error and delivers no record, whatever the
\* other scraper has produced; and it rejects in no other case.
C14_RejectionPropagates ==
  /\ a16z.pc = "rejected" =>
       /\ a16z.error \in PageOutcomes \ {"ok"}
       /\ run.pc \in {"running", "rejected"}
  /\ run.pc = "rejected" =>
       /\ a16z.pc = "rejected"
       /\ run.error = a16z.error
       /\ run.result = <<>>

\* scrapeA16z (ScrapingBee module) rejected with a network error while
\* scrapeYCombinator has a record; scrapeStartups rejected with that error.
C14_Witness ==
  /\ a16z.pc = "rejected"
  /\ run.pc = "rejected"
  /\ run.error = "eNet"
  /\ Len(yc.startups) >= 1

(***************************************************************************)
(* Claims about GET                                                        *)
(***************************************************************************)

\* The request answered last and the request before it were both answered
\* with status 200, and scrapeStartups returned the same records to both.
RepeatedRun ==
  /\ get.pc = "responded"
  /\ get.response.status = 200
  /\ get.prev.response.status = 200
  /\ get.results = get.prev.results

\* C15: the second of two GET requests in a row on identical external data
\* returns the totalCount the first returned, and its upsert adds no row.
C15_SameTotalCount ==
  RepeatedRun =>
    /\ get.response.totalCount = get.prev.response.totalCount
    /\ store = get.before

\* C16: when scrapeStartups rejects or the upsert reports an error, GET
\* answers {error, details} with status 500 and the table holds the rows it
\* held when the request arrived; GET answers 500 in no other case.
C16_FailureLeavesStore ==
  /\ get.failure # "none" =>
       /\ get.pc = "responded"
       /\ get.response.status = 500
       /\ get.response.error = "Operation failed"
       /\ get.response.details \in {"eHttp", "eNet", "eStore", "Unknown error"}
       /\ store = get.before
  /\ (get.pc = "responded" /\ get.response.status = 500) => get.failure # "none"

\* The upsert of two rows, one of them new to the table, reported an error:
\* GET answered 500 and the new row is not in the table.
C16_Witness ==
  /\ get.pc = "responded"
  /\ get.failure = "upsert"
  /\ get.response.status = 500
  /\ Len(get.results) = 2
  /\ store # {}
  /\ \E i \in 1..Len(get.results) :
       \A x \in store : x.name # get.results[i].name

\* C17: a 200 answer carries newCount = the number of records
\* scrapeStartups returned and totalCount = the number of rows in the table
\* after the upsert step; the message is "No new startups found" exactly
\* when no record was returned, and then no upsert was issued.
C17_SuccessCounts ==
  (get.pc = "responded" /\ get.response.status = 200) =>
    /\ get.failure = "none"
    /\ get.response.newCount = Len(get.results)
    /\ get.response.totalCount = Cardinality(store)
    /\ get.response.message = "No new startups found" <=> Len(get.results) = 0
    /\ get.response.message \in {"No new startups found", "Scrape completed successfully"}
    /\ Len(get.results) = 0 => store = get.before

(***************************************************************************)
(* Claims about the termination of the page loop                           *)
(***************************************************************************)

\* The answer to the latest answered page request ("none": no answer yet).
LastAnswer ==
  IF yc.answers = <<>> THEN "none" ELSE yc.answers[Len(yc.answers)].answer

\* The loop runs only while hasMore is true and consecutiveErrors < 3, and
\* it has ended as soon as an empty page was answered, a page answered with a
\* falsy indicator has been processed, or the third consecutive failure came.
PageLoopGuard ==
  /\ yc.consecutiveErrors \in 0..MAX_CONSECUTIVE_ERRORS
  /\ yc.pc \in {"fetching", "items"} =>
       /\ yc.hasMore
       /\ yc.consecutiveErrors < MAX_CONSECUTIVE_ERRORS
  /\ yc.pc = "done" =>
       \/ ~yc.hasMore
       \/ yc.consecutiveErrors = MAX_CONSECUTIVE_ERRORS
  /\ ~yc.hasMore => LastAnswer \in {"empty", "last"}
  /\ LastAnswer = "empty" => yc.pc = "done" /\ ~yc.hasMore
  /\ LastAnswer = "last" => yc.pc \in {"items", "done"}
  /\ (LastAnswer = "last" /\ yc.pc = "done") => ~yc.hasMore

\* C18: the page loop of scrapeYCombinator runs only while hasMore is true
\* and consecutiveErrors < 3, ends on an empty page, on a falsy indicator
\* after a page and on three consecutive failures, and, when every fetch
\* completes, it does end.
C18_PageLoopTerminates ==
  /\ []PageLoopGuard
  /\ (yc.pc = "fetching") ~> (yc.pc = "done")

\* The loop has ended on a falsy indicator after page 0, which was answered
\* after a failed fetch, although the directory holds a further page.
C18_Witness ==
  /\ yc.pc = "done"
  /\ yc.failed
  /\ LastAnswer = "last"
  /\ yc.page = 1
  /\ directory = 2

(***************************************************************************)
(* Claims about the LinkedIn lookup and the portfolio filter               *)
(***************************************************************************)

\* The candidate the scraper r handled last, and the record it pushed last.
LastSeen(r) == r.seen[Len(r.seen)]
LastStartup(r) == r.startups[Len(r.startups)]

\* The lookup of the latest candidate of r failed, and the item loop went on
\* without an exception: the candidate, if its name is valid, is the latest
\* record, with the placeholder value in linkedin_url.
LookupFailureAbsorbed(r, placeholder) ==
  r.lookup = "failed" =>
    /\ r.pc \in {"items", "itemsDone"}
    /\ run.pc = "running"
    /\ validateCompany(LastSeen(r).name) =>
         /\ r.startups # <<>>
         /\ LastStartup(r).name = LastSeen(r).name
         /\ LastStartup(r).linkedin_url = placeholder
         /\ DedupKey(LastSeen(r).name) \in r.processedNames

\* C19: a failure of the LinkedIn lookup for a company never aborts a scrape
\* and never drops the company: getLinkedInUrl absorbs the error and returns
\* the empty value (the ScrapingBee module: the constructed URL), and the
\* company is validated and added with it (scrapeYCombinator of route.ts
\* stores "not found" for the empty value).
C19_LookupFailureAbsorbed ==
  /\ LookupFailureAbsorbed(a16z, "")
  /\ LookupFailureAbsorbed(yc, "not found")
  /\ variant = "bee" =>
       /\ \A i \in 1..Len(a16z.startups) : a16z.startups[i].linkedin_url = "constructed"
       /\ \A i \in 1..Len(yc.startups) : yc.startups[i].linkedin_url = "constructed"

\* The lookup of the second element of a selector failed, and the element's
\* company is the second record of scrapeA16z, with the empty value.
C19_Witness ==
  /\ variant = "route"
  /\ a16z.lookup = "failed"
  /\ a16z.pc = "itemsDone"
  /\ Len(a16z.startups) = 2
  /\ LastStartup(a16z).name = LastSeen(a16z).name
  /\ LastStartup(a16z).linkedin_url = ""

\* The values of FilterBys that contain "2024" and, in no letter case,
\* "exit"; the values of InvestmentDates in the fourth quarter of 2024.
NonExitFilters2024 == {"2024"}
DatesInQ4_2024 == {"Q4 2024", "2024-11-02"}

\* C20: every record of the ScrapingBee scrapeA16z comes from an element
\* whose data-filter-by contains "2024" and not, in any letter case, "exit",
\* and whose data-investment-date is in the fourth quarter of 2024: a step
\* that adds a record has such an element in hand, whatever its name.
C20_OnlyQ4NonExits ==
  [][(variant = "bee" /\ a16z'.startups # a16z.startups) =>
       /\ a16z.pc = "items"
       /\ a16z'.item.filterBy \in NonExitFilters2024
       /\ a16z'.item.investmentDate \in DatesInQ4_2024
       /\ Len(a16z'.startups) = Len(a16z.startups) + 1
       /\ LastStartup(a16z').name = LastSeen(a16z').name]_vars

\* The first element, of a valid name, was skipped for its attributes; the
\* second one, a 2024 non-exit of the fourth quarter, gave the only record.
C20_Witness ==
  /\ variant = "bee"
  /\ a16z.pc = "itemsDone"
  /\ Len(a16z.seen) = 2
  /\ ~a16z.seen[1].eligible /\ validateCompany(a16z.seen[1].name)
  /\ Len(a16z.startups) = 1
  /\ a16z.startups[1].name = a16z.seen[2].name
  /\ a16z.item.filterBy = "2024"
  /\ a16z.item.investmentDate = "2024-11-02"

(***************************************************************************)
(* Claims about failures in the page loop                                  *)
(***************************************************************************)

\* A step in which the request of the current page was made and failed.
PageFailureStep ==
  /\ yc.pc = "fetching"
  /\ yc'.requests = yc.requests + 1
  /\ yc'.answers = yc.answers

\* C21: a page-level fetch failure increments consecutiveErrors by one and
\* leaves page unchanged; page is incremented, and consecutiveErrors reset
\* to 0, only after a non-empty page has been fetched and processed; the
\* same page index is requested at most 3 times in a row.
C21_SamePageAtMostThrice ==
  /\ [](yc.requests <= 3)
  /\ [][/\ PageFailureStep =>
            /\ yc'.consecutiveErrors = yc.consecutiveErrors + 1
            /\ yc'.page = yc.page
        /\ (yc'.page # yc.page \/ yc'.consecutiveErrors < yc.consecutiveErrors) =>
            /\ yc.pc = "items" /\ yc.left = 1
            /\ LastAnswer \in {"more", "last"}
            /\ yc.answers[Len(yc.answers)].page = yc.page
            /\ yc'.page = yc.page + 1
            /\ yc'.consecutiveErrors = 0
            /\ yc'.requests = 0]_vars

\* Page 1 was requested three times in a row: two requests failed, the
\* third one was answered and its companies are being processed.
C21_Witness ==
  /\ yc.page = 1
  /\ yc.requests = 3
  /\ yc.consecutiveErrors = 2
  /\ yc.pc = "items"

\* C22: a per-company processing failure in scrapeYCombinator increments
\* consecutiveErrors but never ends the cohort loop: the remaining companies
\* of the page are still processed, the counter is reset to 0 at the end of
\* the page, and the loop then goes on or ends by the page's indicator
\* alone, however many companies of the page failed.
C22_CompanyFailureKeepsLoop ==
  [][(yc.pc = "items" /\ yc' # yc) =>
       /\ yc.left > 1 =>
            /\ yc'.pc = "items"
            /\ yc'.left = yc.left - 1
            /\ yc'.page = yc.page
            /\ yc'.consecutiveErrors =
                 yc.consecutiveErrors + (IF yc'.threw THEN 1 ELSE 0)
            /\ yc'.threw => yc'.startups = yc.startups
       /\ yc.left = 1 =>
            /\ yc'.consecutiveErrors = 0
            /\ yc'.page = yc.page + 1
            /\ yc'.pc = IF yc.next THEN "fetching" ELSE "done"]_vars

\* The first company of a page of two failed and was counted as the third
\* consecutive error; the second company is still to be processed.
C22_Witness ==
  /\ yc.pc = "items"
  /\ yc.threw
  /\ yc.left = 1
  /\ yc.consecutiveErrors = 3

(***************************************************************************)
(* Claims about one run and the shared RateLimiter                         *)
(***************************************************************************)

\* The tasks of scraper c that the limiter holds: in the queue or executing.
OutstandingOf(c) ==
  {t \in TaskIds : /\ owner[t] = c
                   /\ \/ t \in running
                      \/ \E i \in 1..Len(queue) : queue[i] = t}

\* C23: during one run the two scrapers run concurrently, each awaiting its
\* fetches one after the other: each scraper has at most one task pending or
\* executing in the shared RateLimiter, so the limiter holds at most two
\* outstanding tasks.
C23_OneTaskPerScraper ==
  /\ \A c \in CallIds : Cardinality(OutstandingOf(c)) <= 1
  /\ Len(queue) + Cardinality(running) <= 2

\* The task of scraper 2 is executing while scraper 1, whose first fetch has
\* returned, has the task of its second fetch in the queue.
C23_Witness ==
  /\ Cardinality(OutstandingOf(1)) = 1
  /\ Cardinality(OutstandingOf(2)) = 1
  /\ Len(queue) = 1 /\ owner[queue[1]] = 1
  /\ promise[1] = "none" /\ nextId = 3
  /\ calls[1].issued = 1 /\ calls[1].pc = "awaiting"

(***************************************************************************)
(* Claims about the rows GET stores                                        *)
(***************************************************************************)

\* C24: every record GET passes to the upsert has a non-empty name, website
\* and linkedin_url: an empty value is replaced by its sentinel, the values
\* scraped are kept otherwise, so the empty LinkedIn value of a failed lookup
\* is stored as "not found".
C24_SentinelsForEmpty ==
  /\ Len(get.rows) = IF get.pc = "scraping" THEN 0 ELSE Len(get.results)
  /\ \A i \in 1..Len(get.rows) :
       LET row == get.rows[i]
           rec == get.results[i]
       IN /\ row.name # <<>> /\ row.website # "" /\ row.linkedin_url # ""
          /\ rec.name # <<>> => row.name = rec.name
          /\ row.website = IF rec.website = "" THEN "not found" ELSE rec.website
          /\ row.linkedin_url =
               IF rec.linkedin_url = "" THEN "not found" ELSE rec.linkedin_url
  /\ \A x \in store : x.name # <<>> /\ x.website # "" /\ x.linkedin_url # ""

\* The record of a company whose LinkedIn lookup failed came first in the
\* batch, the table was empty: its row is stored with "not found".
C24_Witness ==
  /\ get.pc = "responded"
  /\ get.response.status = 200
  /\ get.before = {}
  /\ Len(get.results) = 2
  /\ get.results[1].linkedin_url = ""
  /\ [name |-> get.results[1].name, website |-> "not found",
      linkedin_url |-> "not found"] \in store

(***************************************************************************)
(* Claims about the wakeup of the drain                                    *)
(***************************************************************************)

\* Task t has been shifted from the queue and its fn() started.
Started(t) == \E i \in 1..Len(startOrder) : startOrder[i] = t

\* While the queue holds a task a drain is in progress.
DrainWhenQueued ==
  Len(queue) > 0 => processing /\ ActiveDrains # {}

\* C25: the RateLimiter never loses a wakeup: whenever the queue is
\* non-empty a drain is in progress, and, the tasks ahead of it completing,
\* every task submitted with add() is started and has its outcome delivered.
C25_NoLostWakeup ==
  /\ []DrainWhenQueued
  /\ \A t \in TaskIds :
       (promise[t] = "pending") ~> (Started(t) /\ Settled(t) /\ promise[t] = outcome[t])

\* Three tasks were submitted, every one has been started and has had its
\* outcome delivered, and the drain has ended on the empty queue.
C25_Witness ==
  /\ nextId >= 3
  /\ \A t \in 1..nextId : Started(t) /\ Settled(t)
  /\ queue = <<>>
  /\ ~processing
  /\ ActiveDrains = {}

(***************************************************************************)
(* Claims about the next-page indicator                                    *)
(***************************************************************************)

\* C26: after a non-empty page scrapeYCombinator continues to the next page
\* only if the response carried a truthy next or nextPage field: every
\* answer that was followed by a further answer carried one, and after a
\* page answered with neither the loop ends without a request of the
\* following page index, however many non-empty pages the directory holds.
C26_IndicatorDecides ==
  /\ \A i \in 1..(Len(yc.answers) - 1) : yc.answers[i].answer = "more"
  /\ LastAnswer = "last" =>
       \/ yc.pc = "items" /\ yc.page = yc.answers[Len(yc.answers)].page
       \/ /\ yc.pc = "done"
          /\ ~yc.hasMore
          /\ yc.page = yc.answers[Len(yc.answers)].page + 1
          /\ yc.requests = 0
  /\ (LastAnswer = "more" /\ yc.pc = "fetching") => yc.hasMore

\* The directory holds two non-empty pages; page 0 was fetched at the first
\* attempt and answered without indicator, and the loop has ended with page 1
\* never requested.
C26_Witness ==
  /\ directory = 2
  /\ yc.pc = "done"
  /\ ~yc.failed
  /\ yc.answers = <<[page |-> 0, answer |-> "last"]>>
  /\ yc.page = 1
  /\ yc.requests = 0
  /\ Len(yc.startups) = 1

(***************************************************************************)
(* Claims about a request whose fetches fail                               *)
(***************************************************************************)

\* No request of scrapeYCombinator was answered and its loop has ended.
NoPageAnswered == yc.pc = "done" /\ yc.answers = <<>>

\* C27: in route.ts neither scrapeA16z nor scrapeYCombinator rejects,
\* whatever the fetches end with; when every request fails, scrapeStartups
\* resolves with the empty list and GET answers 200 with success true,
\* newCount 0 and "No new startups found", not 500.
C27_FailedFetchesAnswer200 ==
  variant = "route" =>
    /\ a16z.pc # "rejected"
    /\ run.pc # "rejected"
    /\ get.failure # "scrape"
    /\ a16z.pc = "done" => a16z.startups = <<>>
    /\ NoPageAnswered =>
         /\ yc.consecutiveErrors = 3
         /\ yc.startups = <<>>
         /\ run.pc = "resolved" => run.result = <<>>
         /\ get.pc = "responded" =>
              /\ get.response.status = 200
              /\ get.response.success
              /\ get.response.newCount = 0
              /\ get.response.message = "No new startups found"
              /\ store = {}

\* The portfolio page and three requests of page 0 of a directory of two
\* pages failed, and GET has answered 200 with newCount 0.
C27_Witness ==
  /\ variant = "route"
  /\ directory = 2
  /\ a16z.pc = "done"
  /\ NoPageAnswered
  /\ yc.requests = 3
  /\ run.pc = "resolved"
  /\ get.pc = "responded"
  /\ get.response.status = 200
  /\ get.response.newCount = 0

====
